---- MODULE Spec2Model ----
(***************************************************************************)
(* NES sprite reader (src/nes_sprite_reader.py, Python 2).                   *)
(*                                                                         *)
(* A NESSpriteReader reads a .nes ROM, parses the 16-byte header, slices    *)
(* the CHR region, decodes every 16-byte record into an 8x8 tile and        *)
(* resolves the palettes it is given.  DrawSprite, DrawSpriteBlock and      *)
(* WriteAndNumberAllSprites then composite tiles onto PIL images.           *)
(*                                                                         *)
(* Bytes are integers 0..255; a Python 2 str of bytes is a sequence of      *)
(* them.  A str of characters (hexlify output, '{:04b}' output, a tile      *)
(* row) is a sequence of one-character strings.  Python exceptions are      *)
(* recorded by name in err.  Image coordinates are 0-based, as in PIL.      *)
(***************************************************************************)
EXTENDS Integers, Sequences, FiniteSets, TLC

VARIABLES
  rom_file,      \* the bytes of the file at file_path (input of __init__)
  palettes_arg,  \* the palettes argument of __init__: <<name, address>> pairs
  load_args,     \* the records the driver still passes to LoadSprite (input)
  pc,            \* where the driver / the running method is
  err,           \* the exception that ended the last operation, or "none"
  file_data,     \* self._file_data
  header,        \* the header attributes of self (prg_banks ... chr_start)
  chr_data,      \* self.chr_data
  index,         \* the loop variable of __init__'s decode loop
  sprites,       \* self.sprites
  pal_index,     \* position of LoadPalettes' loop in its argument (1-based)
  palettes,      \* self.palettes
  img,           \* the caller's canvas, threaded through its DrawSprite calls
  call,          \* the last DrawSprite call of the caller: arguments and outcome
  ndraws,        \* how many DrawSprite calls the caller has made
  ex,            \* the locals of a running WriteAndNumberAllSprites
  saved          \* what img.save wrote

vars == <<rom_file, palettes_arg, load_args, pc, err, file_data, header,
          chr_data, index, sprites, pal_index, palettes, img, call, ndraws,
          ex, saved>>

----------------------------------------------------------------------------
(* Program constants.                                                      *)

HEADER_LENGTH == 16
PRG_BANK_SIZE == 16384
CHR_BANK_SIZE == 8192
SPRITE_RECORD_BYTES == 16
TILE_PIXELS == 8
BLOCK_ROW_HEIGHT == 32
DEFAULT_PER_ROW == 10


Byte == 0 .. 255

DEFAULT_PALETTE ==
  [k \in {"0", "1", "2", "3"} |->
     CASE k = "0" -> <<255, 255, 255>>
       [] k = "1" -> <<117, 117, 117>>
       [] k = "2" -> <<188, 188, 188>>
       [] k = "3" -> <<0, 0, 0>>]

\* 'white', the fill colour of every Image.new in the program.
WHITE == <<255, 255, 255>>

\* The text colour of the row labels.
LABEL_GREEN == <<0, 255, 0>>

----------------------------------------------------------------------------
(* Python helpers: slices, hexlify, int(s, base), format.                   *)

Min(a, b) == IF a < b THEN a ELSE b
Max(a, b) == IF a > b THEN a ELSE b

\* s[a:b] for 0 <= a <= b: out-of-range ends are clipped, never an error.
Slice(s, a, b) ==
  IF a >= Len(s) THEN <<>> ELSE SubSeq(s, a + 1, Min(b, Len(s)))

HexDigits ==
  <<"0", "1", "2", "3", "4", "5", "6", "7",
    "8", "9", "a", "b", "c", "d", "e", "f">>

\* binascii.hexlify: two lower-case hex characters per byte, high nibble first.
RECURSIVE Hexlify(_)
Hexlify(bytes_) ==
  IF Len(bytes_) = 0 THEN <<>>
  ELSE <<HexDigits[(bytes_[1] \div 16) + 1], HexDigits[(bytes_[1] % 16) + 1]>>
       \o Hexlify(Tail(bytes_))

\* int(c, 16) for one hex character.
HexValue(c) == (CHOOSE n \in 1 .. 16 : HexDigits[n] = c) - 1

\* int(s, 16) for a non-empty str of hex characters.
RECURSIVE IntBase16(_)
IntBase16(s) ==
  IF Len(s) = 0 THEN 0
  ELSE 16 * IntBase16(SubSeq(s, 1, Len(s) - 1)) + HexValue(s[Len(s)])

\* '{:04b}'.format(n) for n in 0..15: four characters, most significant first.
Format04b(n) ==
  [i \in 1 .. 4 |->
     IF (n \div (2 ^ (4 - i))) % 2 = 1 THEN "1" ELSE "0"]

\* int(s, 2) for a str of binary characters.
RECURSIVE IntBase2(_)
IntBase2(s) ==
  IF Len(s) = 0 THEN 0
  ELSE 2 * IntBase2(SubSeq(s, 1, Len(s) - 1))
       + (IF s[Len(s)] = "1" THEN 1 ELSE 0)

DecimalDigits == <<"0", "1", "2", "3", "4", "5", "6", "7", "8", "9">>

\* str(n) for a one-digit n.
Str1(n) == DecimalDigits[n + 1]

ConvertToHex(bytes_) == IntBase16(Hexlify(bytes_))

\* A variant that takes plane B's bit as the high bit.
CompositeSpriteValuePlanesSwapped(nibble_1, nibble_2) ==
  [i \in 1 .. Min(Len(nibble_1), Len(nibble_2)) |->
     Str1(IntBase2(<<nibble_2[i], nibble_1[i]>>))]

\* zip(nibble_1, nibble_2), int(n1 + n2, 2), str, ''.join.
CompositeSpriteValue(nibble_1, nibble_2) ==
  [i \in 1 .. Min(Len(nibble_1), Len(nibble_2)) |->
     Str1(IntBase2(<<nibble_1[i], nibble_2[i]>>))]

----------------------------------------------------------------------------
(* LoadSprite: one 16-byte record to one tile.                              *)

\* One pass of the loop over position = 0, 2, .., 14.  The unpacking
\* hi, low = byte raises ValueError unless the slice holds two characters.
SpriteRow(channel_a, channel_b, position) ==
  LET ca_byte == Slice(channel_a, position, position + 2)
      cb_byte == Slice(channel_b, position, position + 2)
  IN IF Len(ca_byte) # 2 \/ Len(cb_byte) # 2
     THEN [err |-> "ValueError", row |-> <<>>]
     ELSE LET hi_a_bin  == Format04b(HexValue(ca_byte[1]))
              hi_b_bin  == Format04b(HexValue(cb_byte[1]))
              low_a_bin == Format04b(HexValue(ca_byte[2]))
              low_b_bin == Format04b(HexValue(cb_byte[2]))
          IN [err |-> "none",
              row |-> CompositeSpriteValue(hi_a_bin, hi_b_bin)
                      \o CompositeSpriteValue(low_a_bin, low_b_bin)]

\* The sprite LoadSprite appends, or the exception it raises before appending.
LoadSprite(sprite_data) ==
  LET channel_a == Hexlify(Slice(sprite_data, 0, 8))
      channel_b == Hexlify(Slice(sprite_data, 8, 16))
      \* for position in range(0, 16, 2)
      rows == <<SpriteRow(channel_a, channel_b, 0),
                SpriteRow(channel_a, channel_b, 2),
                SpriteRow(channel_a, channel_b, 4),
                SpriteRow(channel_a, channel_b, 6),
                SpriteRow(channel_a, channel_b, 8),
                SpriteRow(channel_a, channel_b, 10),
                SpriteRow(channel_a, channel_b, 12),
                SpriteRow(channel_a, channel_b, 14)>>
  IN IF \E r \in 1 .. 8 : rows[r].err # "none"
     THEN [err |-> "ValueError", sprite |-> <<>>]
     ELSE [err |-> "none", sprite |-> [r \in 1 .. 8 |-> rows[r].row]]

----------------------------------------------------------------------------
(* The colour table nes_palette.NES_PALETTE.  The module is imported by     *)
(* nes_sprite_reader.py and is not among the source files: it is taken, as  *)
(* the specification describes it, to hold one RGB triple per byte value.   *)

NES_PALETTE(b) == <<b, (b * 7 + 3) % 256, (255) - b>>

----------------------------------------------------------------------------
(* Images (PIL).  An image is its mode, its size and its pixels px[y][x].   *)

NoImage == [mode |-> "None", size |-> <<0, 0>>, px |-> <<>>]

\* Image.new(mode, (width, height), 'white')
ImageNew(mode, width, height) ==
  [mode |-> mode, size |-> <<width, height>>,
   px |-> [y \in 0 .. (height - 1) |-> [x \in 0 .. (width - 1) |-> WHITE]]]

----------------------------------------------------------------------------
(* Construction: NESSpriteReader.__init__.                                  *)

NoHeader ==
  [constant |-> <<>>, prg_banks |-> 0, chr_banks |-> 0, flags_6 |-> 0,
   flags_7 |-> 0, prg_ram_size |-> 0, flags_9 |-> 0, flags_10 |-> 0,
   zero_fill |-> 0, prg_length |-> 0, chr_length |-> 0, prg_start |-> 0,
   chr_start |-> 0]

\* palette=None
NoPalette == [none |-> TRUE]

\* sprite_block, img_new and draws belong to a DrawSpriteBlock call: its
\* argument, the canvas it created for img=None, and the DrawSprite calls it
\* made.
NoCall ==
  [op |-> "none", sprite_data |-> <<>>, tiles_before |-> 0,
   img_in |-> NoImage, sprites |-> <<>>, palette |-> NoPalette,
   x_val |-> 0, y_val |-> 0, err |-> "none",
   sprite_block |-> <<>>, img_new |-> NoImage, draws |-> <<>>]

NoExport ==
  [per_row |-> 0, palette |-> NoPalette, height |-> 0, img |-> NoImage,
   row_index |-> 0, col_index |-> 0, y_offset |-> 0, labels |-> <<>>,
   calls |-> <<>>]

NoSaved == [img |-> NoImage, labels |-> <<>>]

\* self._file_data[i] with a single index: IndexError past the end.
HeaderReadable(data) == Len(data) > 10

\* Line 193.
PrgLength(prg_banks) == prg_banks * PRG_BANK_SIZE

\* A variant that gives a CHR bank the size of a PRG bank.
ChrLengthWithPrgBankSize(chr_banks) == chr_banks * PRG_BANK_SIZE

\* Line 194.
ChrLength(chr_banks) == chr_banks * CHR_BANK_SIZE

\* Lines 181-197: the header attributes and the derived lengths and starts.
HeaderOf(data) ==
  LET prg_banks == ConvertToHex(<<data[5]>>)
      chr_banks == ConvertToHex(<<data[6]>>)
      header_length == HEADER_LENGTH
      prg_length == PrgLength(prg_banks)
      chr_length == ChrLength(chr_banks)
  IN [constant |-> Slice(data, 0, 4),
      prg_banks |-> prg_banks,
      chr_banks |-> chr_banks,
      flags_6 |-> ConvertToHex(<<data[7]>>),
      flags_7 |-> ConvertToHex(<<data[8]>>),
      prg_ram_size |-> ConvertToHex(<<data[9]>>),
      flags_9 |-> ConvertToHex(<<data[10]>>),
      flags_10 |-> ConvertToHex(<<data[11]>>),
      zero_fill |-> ConvertToHex(Slice(data, 10, 15)),
      prg_length |-> prg_length,
      chr_length |-> chr_length,
      prg_start |-> header_length,
      chr_start |-> header_length + prg_length]

\* A variant that slices right after the header, as if there were no PRG.
ChrDataAfterHeader(data, h) ==
  Slice(data, HEADER_LENGTH, HEADER_LENGTH + h.chr_length)

\* Lines 199-200.
ChrDataOf(data, h) == Slice(data, h.chr_start, h.chr_start + h.chr_length)

\* A variant without the switch of keys 1 and 2.
PaletteOfInByteOrder(palette_bytes) ==
  [k \in {"0", "1", "2", "3"} |->
     CASE k = "0" -> NES_PALETTE(palette_bytes[1])
       [] k = "1" -> NES_PALETTE(palette_bytes[2])
       [] k = "2" -> NES_PALETTE(palette_bytes[3])
       [] k = "3" -> NES_PALETTE(palette_bytes[4])]

\* The dictionary LoadPalettes stores for one 4-byte slice.
PaletteOf(palette_bytes) ==
  [k \in {"0", "1", "2", "3"} |->
     CASE k = "0" -> NES_PALETTE(palette_bytes[1])
       [] k = "1" -> NES_PALETTE(palette_bytes[3])
       [] k = "2" -> NES_PALETTE(palette_bytes[2])
       [] k = "3" -> NES_PALETTE(palette_bytes[4])]

\* d[key] = value on a dictionary.
DictSet(d, key, value) ==
  [k \in (DOMAIN d) \cup {key} |-> IF k = key THEN value ELSE d[k]]

EmptyDict == [k \in {} |-> 0]

\* with open(file_path, 'rb') as f: self._file_data = f.read()
ReadFile ==
  /\ pc = "init"
  /\ file_data' = rom_file
  /\ pc' = "read"
  /\ UNCHANGED <<rom_file, palettes_arg, load_args, err, header, chr_data,
                 index, sprites, pal_index, palettes, img, call, ndraws, ex,
                 saved>>

\* Lines 181-197.  A file too short for one of the single-index reads raises
\* IndexError and no object is returned.
ParseHeader ==
  /\ pc = "read"
  /\ IF HeaderReadable(file_data)
     THEN /\ header' = HeaderOf(file_data)
          /\ pc' = "header"
          /\ err' = err
     ELSE /\ header' = header
          /\ pc' = "failed"
          /\ err' = "IndexError"
  /\ UNCHANGED <<rom_file, palettes_arg, load_args, file_data, chr_data,
                 index, sprites, pal_index, palettes, img, call, ndraws, ex,
                 saved>>

\* Lines 199-204: the CHR slice, and the empty sprite list.
SliceChr ==
  /\ pc = "header"
  /\ chr_data' = ChrDataOf(file_data, header)
  /\ sprites' = <<>>
  /\ index' = 0
  /\ pc' = "decode"
  /\ UNCHANGED <<rom_file, palettes_arg, load_args, err, file_data, header,
                 pal_index, palettes, img, call, ndraws, ex, saved>>

\* Lines 205-206: for index in range(0, self.chr_length, 16):
\* self.LoadSprite(self.chr_data[index:index+16]).  The loop appends a sprite
\* per pass until the range is exhausted or a pass raises; the result is the
\* list as the loop leaves it, the exception if any, and the last index.
DecodePasses(chr_length) ==
  (chr_length + SPRITE_RECORD_BYTES - 1) \div SPRITE_RECORD_BYTES

DecodeSprites(data, chr_length) ==
  LET passes == DecodePasses(chr_length)
      RecordAt(i) == Slice(data, (i - 1) * SPRITE_RECORD_BYTES,
                           i * SPRITE_RECORD_BYTES)
      raising == {i \in 1 .. passes : LoadSprite(RecordAt(i)).err # "none"}
      done == IF raising = {} THEN passes
              ELSE (CHOOSE i \in raising : \A j \in raising : i <= j) - 1
  IN [err |-> IF raising = {} THEN "none"
              ELSE LoadSprite(RecordAt(done + 1)).err,
      sprites |-> [i \in 1 .. done |-> LoadSprite(RecordAt(i)).sprite],
      index |-> IF raising = {} THEN Max(0, passes - 1) * SPRITE_RECORD_BYTES
                ELSE done * SPRITE_RECORD_BYTES]

\* Lines 205-211: the decode loop, then self.palettes = {} and the test of
\* the palettes argument.
DecodeLoop ==
  /\ pc = "decode"
  /\ LET res == DecodeSprites(chr_data, header.chr_length)
     IN /\ sprites' = res.sprites
        /\ index' = res.index
        /\ IF res.err = "none"
           THEN /\ palettes' = EmptyDict
                /\ pal_index' = 1
                /\ pc' = IF Len(palettes_arg) > 0 THEN "palettes" ELSE "ready"
                /\ err' = err
           ELSE /\ pc' = "failed"
                /\ err' = res.err
                /\ UNCHANGED <<palettes, pal_index>>
  /\ UNCHANGED <<rom_file, palettes_arg, load_args, file_data, header,
                 chr_data, img, call, ndraws, ex, saved>>

\* One pass of LoadPalettes' loop that passes over a descriptor whose four
\* bytes cannot be read, instead of raising.
LoadPalettesStepSkippingUnreadable ==
  /\ pc = "palettes"
  /\ LET palette_name == palettes_arg[pal_index][1]
         address == palettes_arg[pal_index][2]
         palette_bytes == Slice(file_data, address, address + 4)
     IN /\ palettes' = IF Len(palette_bytes) < 4 THEN palettes
                       ELSE DictSet(palettes, palette_name,
                                    PaletteOf(palette_bytes))
        /\ pal_index' = pal_index + 1
        /\ pc' = IF pal_index < Len(palettes_arg) THEN "palettes" ELSE "ready"
        /\ err' = err
  /\ UNCHANGED <<rom_file, palettes_arg, load_args, file_data, header,
                 chr_data, index, sprites, img, call, ndraws, ex, saved>>

\* Lines 337-346: one pass of LoadPalettes' loop.  palette_bytes[k] raises
\* IndexError when the slice is short; the dictionary is stored only when all
\* four lookups succeeded.
LoadPalettesStep ==
  /\ pc = "palettes"
  /\ LET palette_name == palettes_arg[pal_index][1]
         address == palettes_arg[pal_index][2]
         palette_bytes == Slice(file_data, address, address + 4)
     IN IF Len(palette_bytes) < 4
        THEN /\ pc' = "failed"
             /\ err' = "IndexError"
             /\ UNCHANGED <<palettes, pal_index>>
        ELSE /\ palettes' = DictSet(palettes, palette_name,
                                    PaletteOf(palette_bytes))
             /\ pal_index' = pal_index + 1
             /\ pc' = IF pal_index < Len(palettes_arg) THEN "palettes"
                      ELSE "ready"
             /\ err' = err
  /\ UNCHANGED <<rom_file, palettes_arg, load_args, file_data, header,
                 chr_data, index, sprites, img, call, ndraws, ex, saved>>

----------------------------------------------------------------------------
(* A caller's own LoadSprite call on a constructed reader.                  *)

CallLoadSprite ==
  /\ pc = "ready"
  /\ Len(load_args) > 0
  /\ LET sprite_data == Head(load_args)
         res == LoadSprite(sprite_data)
     IN /\ sprites' = IF res.err = "none" THEN Append(sprites, res.sprite)
                      ELSE sprites
        /\ err' = res.err
        /\ call' = [NoCall EXCEPT !.op = "LoadSprite",
                                  !.sprite_data = sprite_data,
                                  !.tiles_before = Len(sprites),
                                  !.err = res.err]
  /\ load_args' = Tail(load_args)
  /\ UNCHANGED <<rom_file, palettes_arg, pc, file_data, header, chr_data,
                 index, pal_index, palettes, img, ndraws, ex, saved>>

----------------------------------------------------------------------------
(* Sizes and enlargement.                                                   *)

\* A variant that measures the first row.
FirstRow(sprite) == sprite[1]

\* max(sprite, key=len): the first row of greatest length.
MaxByLen(sprite) ==
  sprite[CHOOSE i \in 1 .. Len(sprite) :
           /\ \A j \in 1 .. Len(sprite) : Len(sprite[j]) <= Len(sprite[i])
           /\ \A j \in 1 .. (i - 1) : Len(sprite[j]) < Len(sprite[i])]

\* (width, height) in pixels; max() of an empty sprite raises ValueError,
\* which DrawSprite tests before it asks for the size.
GetSpriteSize(sprite) ==
  <<Len(MaxByLen(sprite)) * TILE_PIXELS, Len(sprite) * TILE_PIXELS>>

\* The test of line 153.
MustEnlarge(image, width, height, x_val, y_val) ==
  LET img_width == image.size[1]
      img_height == image.size[2]
      max_width == Max(img_width, width + x_val)
      max_height == Max(img_height, height + y_val)
  IN (max_height > img_height) \/ (max_width > img_width)

\* A variant that leaves the new image blank.
PasteNothing(enlarged_image, image) == enlarged_image

\* enlarged_image.paste(img, (0, 0))
PasteAtOrigin(enlarged_image, image) ==
  [enlarged_image EXCEPT !.px =
     [y \in 0 .. (enlarged_image.size[2] - 1) |->
        [x \in 0 .. (enlarged_image.size[1] - 1) |->
           IF y < image.size[2] /\ x < image.size[1]
           THEN image.px[y][x]
           ELSE enlarged_image.px[y][x]]]]

MaybeEnlargeImage(image, width, height, x_val, y_val) ==
  LET img_width == image.size[1]
      img_height == image.size[2]
      max_width == Max(img_width, width + x_val)
      max_height == Max(img_height, height + y_val)
  IN IF MustEnlarge(image, width, height, x_val, y_val)
     THEN PasteAtOrigin(ImageNew(image.mode, max_width, max_height), image)
     ELSE image

----------------------------------------------------------------------------
(* DrawSprite.                                                              *)

\* a_list[n]: negative n counts from the end; IndexError outside -len..len-1.
ListIndexOk(a_list, n) == n < Len(a_list) /\ n >= 0 - Len(a_list)

ListGet(a_list, n) ==
  IF n >= 0 THEN a_list[n + 1] ELSE a_list[Len(a_list) + n + 1]

\* The cells enumerate(sprites) / enumerate(row) visit, in order:
\* <<block_row_index, block_col_index, sprite_number>>.
RECURSIVE CellsFrom(_, _)
CellsFrom(sprites_, r) ==
  IF r > Len(sprites_) THEN <<>>
  ELSE [c \in 1 .. Len(sprites_[r]) |-> <<r - 1, c - 1, sprites_[r][c]>>]
       \o CellsFrom(sprites_, r + 1)

\* putpixel for the 64 values of one tile whose corner is (x0, y0).
PutPixels(image, sprite, palette, x0, y0) ==
  [image EXCEPT !.px =
        [y \in 0 .. (image.size[2] - 1) |->
           IF y >= y0 /\ y - y0 < Len(sprite)
           THEN [x \in 0 .. (image.size[1] - 1) |->
                   IF x >= x0 /\ x - x0 < Len(sprite[y - y0 + 1])
                   THEN palette[sprite[y - y0 + 1][x - x0 + 1]]
                   ELSE image.px[y][x]]
           ELSE image.px[y]]]

\* A variant that offsets a tile by its row index in x and its column index
\* in y.
PutTileTransposed(image, sprite, palette, x_val, y_val, block_col_index, block_row_index) ==
  PutPixels(image, sprite, palette,
            x_val + (block_row_index * TILE_PIXELS),
            y_val + (block_col_index * TILE_PIXELS))

\* Lines 380-388 for one tile: img.putpixel((x_coord, y_coord), palette[value])
\* for its 64 values, x_coord = x_val + sprite_col_index + block_col_index*8
\* and y_coord = y_val + sprite_row_index + block_row_index*8.
PutTile(image, sprite, palette, x_val, y_val, block_col_index, block_row_index) ==
  PutPixels(image, sprite, palette,
            x_val + (block_col_index * TILE_PIXELS),
            y_val + (block_row_index * TILE_PIXELS))

\* Lines 376-388 from the k-th cell on: the image when the loops end, or the
\* image as it is when self.sprites[sprite_number] raises IndexError.
RECURSIVE DrawCells(_, _, _, _, _, _, _)
DrawCells(tiles, image, cells, k, palette, x_val, y_val) ==
  IF k > Len(cells) THEN [err |-> "none", img |-> image]
  ELSE LET sprite_number == cells[k][3]
       IN IF ~ListIndexOk(tiles, sprite_number)
          THEN [err |-> "IndexError", img |-> image]
          ELSE DrawCells(tiles,
                         PutTile(image, ListGet(tiles, sprite_number), palette,
                                 x_val, y_val, cells[k][2], cells[k][1]),
                         cells, k + 1, palette, x_val, y_val)

\* DrawSprite(img, sprites, palette, x_val, y_val) on a reader whose
\* self.sprites is tiles; image = NoImage stands for img=None.  The result is
\* the exception (or "none"), the image object the pixels were written to as
\* the call leaves it, and whether that object is the one passed in.
DrawSprite(tiles, image, sprites_, palette, x_val, y_val) ==
  IF Len(sprites_) = 0
  THEN [err |-> "ValueError", img |-> image, same |-> TRUE]
  ELSE LET size == GetSpriteSize(sprites_)
           width == size[1]
           height == size[2]
           target == IF image = NoImage
                     THEN ImageNew("RGB", width + x_val, height + y_val)
                     ELSE MaybeEnlargeImage(image, width, height, x_val, y_val)
           same == /\ image # NoImage
                   /\ ~MustEnlarge(image, width, height, x_val, y_val)
           pal == IF palette = NoPalette THEN DEFAULT_PALETTE ELSE palette
           res == DrawCells(tiles, target, CellsFrom(sprites_, 1), 1, pal,
                            x_val, y_val)
       IN [err |-> res.err, img |-> res.img, same |-> same]

MaxDraws == 2

\* The sprite layouts the driver draws.
Layouts ==
  { << <<0>> >>,
    << <<0, 1>>, <<2>> >>,
    << <<0 - 1>>, <<2, 0>> >> }

Offsets == { <<0, 0>>, <<8, 0>>, <<3, 5>> }

\* The driver calls DrawSprite and keeps what it returns as its canvas.  When
\* the call raises, the driver still holds the canvas it passed, which the
\* call has written to if it did not have to enlarge it.
CallDrawSprite ==
  /\ pc = "ready"
  /\ ndraws < MaxDraws
  /\ \E sprites_ \in Layouts, name \in {"None"} \cup DOMAIN palettes,
        offset \in Offsets :
       LET palette == IF name = "None" THEN NoPalette ELSE palettes[name]
           res == DrawSprite(sprites, img, sprites_, palette,
                             offset[1], offset[2])
       IN /\ img' = IF res.err = "none" \/ res.same THEN res.img ELSE img
          /\ err' = res.err
          /\ call' = [NoCall EXCEPT !.op = "DrawSprite",
                                    !.img_in = img,
                                    !.sprites = sprites_,
                                    !.palette = palette,
                                    !.x_val = offset[1],
                                    !.y_val = offset[2],
                                    !.tiles_before = Len(sprites),
                                    !.err = res.err]
  /\ ndraws' = ndraws + 1
  /\ UNCHANGED <<rom_file, palettes_arg, load_args, pc, file_data, header,
                 chr_data, index, sprites, pal_index, palettes, ex, saved>>

----------------------------------------------------------------------------
(* GetBlockSize and DrawSpriteBlock.  A block is rows of <<sprite, palette>> *)
(* entries.                                                                 *)

\* Lines 112-120 over the entries of one row from the k-th on: row_width and
\* col_height as the inner loop leaves them.
RECURSIVE BlockRowSize(_, _, _, _)
BlockRowSize(block_row, k, row_width, col_height) ==
  IF k > Len(block_row) THEN <<row_width, col_height>>
  ELSE LET size == GetSpriteSize(block_row[k][1])
           sprite_width == size[1]
           sprite_height == size[2]
       IN BlockRowSize(block_row, k + 1, row_width + sprite_width,
                       IF sprite_height > col_height THEN sprite_height
                       ELSE col_height)

\* Lines 110-129 over the rows from the r-th on.
RECURSIVE BlockSizeFrom(_, _, _, _)
BlockSizeFrom(sprite_block, r, img_width, img_height) ==
  IF r > Len(sprite_block) THEN <<img_width, img_height>>
  ELSE LET row == BlockRowSize(sprite_block[r], 1, 0, 0)
           row_width == row[1]
           col_height == row[2]
       IN BlockSizeFrom(sprite_block, r + 1,
                        IF row_width > img_width THEN row_width ELSE img_width,
                        img_height + col_height)

GetBlockSize(sprite_block) == BlockSizeFrom(sprite_block, 1, 0, 0)

\* Some entry of the block has an empty sprite: GetSpriteSize raises
\* ValueError on it (max() of an empty sequence).
HasEmptySprite(sprite_block) ==
  \E r \in 1 .. Len(sprite_block) :
     \E k \in 1 .. Len(sprite_block[r]) : Len(sprite_block[r][k][1]) = 0

\* A variant that advances the y-offset by nothing at the end of a row.
NextRowOffsetKeepingHeight(last_sprite_height) == last_sprite_height

\* Line 425: last_sprite_height += 32
NextRowOffset(last_sprite_height) == last_sprite_height + BLOCK_ROW_HEIGHT

\* The locals of DrawSpriteBlock after the DrawSprite call of entry k of row
\* r returned res (lines 419-424): img, the x-offset, the calls made so far;
\* and, for the caller's sake, the exception if the call raised, whether img
\* is still the object the caller passed (same) and the contents of that
\* object (passed).
BlockStateAfter(st, r, k, sprite, palette, res) ==
  [st EXCEPT
     !.err = res.err,
     !.img = IF res.err = "none" \/ res.same THEN res.img ELSE @,
     !.passed = IF st.same /\ res.same THEN res.img ELSE @,
     !.same = st.same /\ res.same,
     !.last_sprite_width =
        IF res.err = "none" THEN @ + (Len(MaxByLen(sprite)) * TILE_PIXELS)
        ELSE @,
     !.draws = Append(@, [row_idx |-> r - 1, sprite_idx |-> k - 1,
                          sprites |-> sprite, palette |-> palette,
                          x_val |-> st.last_sprite_width,
                          y_val |-> st.last_sprite_height,
                          err |-> res.err,
                          size |-> IF res.err = "none" THEN res.img.size
                                   ELSE st.img.size])]

\* Lines 417-426 from entry k of row r on, until the loops end or a
\* DrawSprite call raises.
RECURSIVE DrawBlockFrom(_, _, _, _, _)
DrawBlockFrom(tiles, sprite_block, r, k, st) ==
  IF st.err # "none" \/ r > Len(sprite_block) THEN st
  ELSE IF k > Len(sprite_block[r])
  THEN DrawBlockFrom(tiles, sprite_block, r + 1, 1,
                     [st EXCEPT !.last_sprite_height = NextRowOffset(@),
                                !.last_sprite_width = 0])
  ELSE DrawBlockFrom(tiles, sprite_block, r, k + 1,
         BlockStateAfter(st, r, k, sprite_block[r][k][1],
                         sprite_block[r][k][2],
                         DrawSprite(tiles, st.img, sprite_block[r][k][1],
                                    sprite_block[r][k][2],
                                    st.last_sprite_width,
                                    st.last_sprite_height)))

\* Lines 410-413: the canvas created for img=None, NoImage if one was passed.
BlockCanvas(image, size) ==
  IF image = NoImage THEN ImageNew("RGB", size[1], size[2]) ELSE NoImage

\* The locals of DrawSpriteBlock before its loops (lines 412-416).
BlockStart(image, created) ==
  [err |-> "none",
   img |-> IF image = NoImage THEN created ELSE image,
   same |-> image # NoImage,
   passed |-> image,
   last_sprite_width |-> 0,
   last_sprite_height |-> 0,
   draws |-> <<>>]

\* What a DrawSpriteBlock call leaves: the exception (or "none"), the image
\* returned, the contents of the object passed in, the canvas created at
\* line 413, and the DrawSprite calls made.
BlockResult(created, st) ==
  [err |-> st.err, img |-> st.img, passed |-> st.passed,
   img_new |-> created, draws |-> st.draws]

\* DrawSpriteBlock(img, sprite_block) on a reader whose self.sprites is
\* tiles; image = NoImage stands for img=None.
DrawBlockOn(tiles, image, sprite_block, created) ==
  BlockResult(created,
              DrawBlockFrom(tiles, sprite_block, 1, 1,
                            BlockStart(image, created)))

DrawSpriteBlock(tiles, image, sprite_block) ==
  IF HasEmptySprite(sprite_block)
  THEN [err |-> "ValueError", img |-> image, passed |-> image,
        img_new |-> NoImage, draws |-> <<>>]
  ELSE DrawBlockOn(tiles, image, sprite_block,
                   BlockCanvas(image, GetBlockSize(sprite_block)))

\* The sprite layouts and the blocks the driver draws as blocks; a palette
\* is named, "None" for the default.
TILE_0 == << <<0>> >>

CROUCH == << <<0, 1>>, <<2>> >>

UNKNOWN_TILE == << <<5>> >>

Blocks ==
  { << << <<CROUCH, "None">>, <<TILE_0, "regular_mario_palette">> >>,
       << <<TILE_0, "None">>, <<CROUCH, "None">> >> >>,
    << << <<TILE_0, "regular_mario_palette">> >> >>,
    << << <<TILE_0, "None">>, <<UNKNOWN_TILE, "None">> >> >> }

\* The block with its palette names looked up in self.palettes, as the
\* driver builds it (rom.palettes['...']).
BlockOf(named_block, palettes_) ==
  [r \in 1 .. Len(named_block) |->
     [k \in 1 .. Len(named_block[r]) |->
        <<named_block[r][k][1],
          IF named_block[r][k][2] = "None" THEN NoPalette
          ELSE palettes_[named_block[r][k][2]]>>]]

\* The driver calls DrawSpriteBlock on its canvas and keeps what it returns;
\* when the call raises it still holds the canvas it passed.
DrawSpriteBlockStep ==
  /\ pc = "ready"
  /\ ndraws < MaxDraws
  /\ \E named_block \in Blocks :
       LET sprite_block == BlockOf(named_block, palettes)
           res == DrawSpriteBlock(sprites, img, sprite_block)
       IN /\ img' = IF res.err = "none" THEN res.img ELSE res.passed
          /\ err' = res.err
          /\ call' = [NoCall EXCEPT !.op = "DrawSpriteBlock",
                                    !.img_in = img,
                                    !.sprite_block = sprite_block,
                                    !.img_new = res.img_new,
                                    !.draws = res.draws,
                                    !.tiles_before = Len(sprites),
                                    !.err = res.err]
  /\ ndraws' = ndraws + 1
  /\ UNCHANGED <<rom_file, palettes_arg, load_args, pc, ex, saved>>

\* A variant that keeps the default palette it fell back to in
\* self.palettes.
CallDrawSpriteBlockKeepingDefault ==
  /\ DrawSpriteBlockStep
  /\ palettes' = DictSet(palettes, "default", DEFAULT_PALETTE)
  /\ UNCHANGED <<file_data, header, chr_data, index, sprites, pal_index>>

\* DrawSpriteBlock reads self.sprites and nothing else of self.
CallDrawSpriteBlock ==
  /\ DrawSpriteBlockStep
  /\ UNCHANGED <<file_data, header, chr_data, index, sprites, pal_index,
                 palettes>>

----------------------------------------------------------------------------
(* WriteAndNumberAllSprites, one DrawSprite call or one label at a time.    *)

MaxPerRow == 3

PerRows == (1 .. MaxPerRow) \cup {DEFAULT_PER_ROW}

\* A variant without the spare row of line 446.
ExportHeightWithoutSpareRow(n_sprites, per_row) ==
  (n_sprites \div per_row) * TILE_PIXELS

\* Line 446, with Python 2's integer division.
ExportHeight(n_sprites, per_row) ==
  ((n_sprites \div per_row) + 1) * TILE_PIXELS

\* A variant that takes the index of the row's first tile for the row number.
ExportYOffsetOfTileIndex(row_index, per_row) == row_index * TILE_PIXELS

\* Line 466, with Python 2's integer division.
ExportYOffset(row_index, per_row) == (row_index \div per_row) * TILE_PIXELS

\* Lines 446-461: the canvas and its ImageDraw, up to the first row.
ExportBegin ==
  /\ pc = "ready"
  /\ \E per_row \in PerRows, name \in {"None"} \cup DOMAIN palettes :
       LET height == ExportHeight(Len(sprites), per_row)
           palette == IF name = "None" THEN DEFAULT_PALETTE
                      ELSE palettes[name]
       IN ex' = [NoExport EXCEPT
                   !.per_row = per_row,
                   !.palette = palette,
                   !.height = height,
                   !.img = ImageNew("RGB", TILE_PIXELS * per_row, height)]
  /\ pc' = IF 0 < Len(sprites) THEN "export_draw" ELSE "export_save"
  /\ UNCHANGED <<rom_file, palettes_arg, load_args, err, file_data, header,
                 chr_data, index, sprites, pal_index, palettes, img, call,
                 ndraws, saved>>

\* Lines 466-482: one pass of the inner loop.  DrawSprite's result is not
\* assigned, so the tile reaches img only when DrawSprite wrote to the object
\* it was given; IndexError ends the row, any other exception ends the call.
ExportDraw ==
  /\ pc = "export_draw"
  /\ LET y_offset == ExportYOffset(ex.row_index, ex.per_row)
         sprite_number == ex.row_index + ex.col_index
         x_val == ex.col_index * TILE_PIXELS
         res == DrawSprite(sprites, ex.img, << <<sprite_number>> >>,
                           ex.palette, x_val, y_offset)
     IN /\ ex' = [ex EXCEPT
                    !.y_offset = y_offset,
                    !.img = IF res.same THEN res.img ELSE ex.img,
                    !.col_index = IF res.err = "none" THEN ex.col_index + 1
                                  ELSE ex.col_index,
                    !.calls = Append(ex.calls,
                                     [sprite_number |-> sprite_number,
                                      x_val |-> x_val, y_val |-> y_offset,
                                      err |-> res.err, same |-> res.same])]
        /\ pc' = IF res.err = "IndexError" THEN "export_label"
                 ELSE IF res.err # "none" THEN "failed"
                 ELSE IF ex.col_index + 1 < ex.per_row THEN "export_draw"
                 ELSE "export_label"
        /\ err' = IF res.err \in {"none", "IndexError"} THEN err ELSE res.err
  /\ UNCHANGED <<rom_file, palettes_arg, load_args, file_data, header,
                 chr_data, index, sprites, pal_index, palettes, img, call,
                 ndraws, saved>>

\* Line 486, and the step of the outer loop.  The text is rendered by
\* ImageDraw on top of img; it is kept as an overlay beside the pixels.
ExportLabel ==
  /\ pc = "export_label"
  /\ ex' = [ex EXCEPT
              !.labels = Append(ex.labels,
                                [xy |-> <<0, ex.y_offset>>,
                                 text |-> ToString(ex.row_index),
                                 fill |-> LABEL_GREEN]),
              !.row_index = ex.row_index + ex.per_row,
              !.col_index = 0]
  /\ pc' = IF ex.row_index + ex.per_row < Len(sprites) THEN "export_draw"
           ELSE "export_save"
  /\ UNCHANGED <<rom_file, palettes_arg, load_args, err, file_data, header,
                 chr_data, index, sprites, pal_index, palettes, img, call,
                 ndraws, saved>>

\* Line 488.
ExportSave ==
  /\ pc = "export_save"
  /\ saved' = [img |-> ex.img, labels |-> ex.labels]
  /\ pc' = "exported"
  /\ UNCHANGED <<rom_file, palettes_arg, load_args, err, file_data, header,
                 chr_data, index, sprites, pal_index, palettes, img, call,
                 ndraws, ex>>

----------------------------------------------------------------------------
(* ROM files and palette descriptors the model is run on.                   *)

MaxChrBanks == 1

\* 'NES\x1a', the bank counts, flags, zero fill.
HeaderBytes(prg, chr) ==
  <<78, 69, 83, 26, prg, chr, 64, 0, 0, 0, 0, 0, 0, 0, 0, 0>>

\* n bytes of PRG/CHR content that differ from record to record.
BodyBytes(seed, n) ==
  [j \in 1 .. n |-> (5 * (j % 251) * (j % 251) + seed * j + 3) % 251]

FullRom(prg, chr) ==
  HeaderBytes(prg, chr)
  \o BodyBytes(prg + 2 * chr + 1, prg * PRG_BANK_SIZE + chr * CHR_BANK_SIZE)

\* Well-formed ROMs: header, PRG banks, CHR banks.
FullRoms ==
  {FullRom(prg, chr) : prg \in {0, 1}, chr \in 0 .. MaxChrBanks}

\* ROMs cut short: inside the header, inside or right after the PRG region,
\* inside a CHR record.
ShortRoms ==
  {SubSeq(HeaderBytes(0, 0), 1, n) : n \in {0, 3, 4, 5, 10, 11, 15}}
  \cup {SubSeq(HeaderBytes(0, 1), 1, n) : n \in {11, 16}}
  \cup {HeaderBytes(1, 0), HeaderBytes(1, 1)}
  \cup {SubSeq(FullRom(0, 1), 1, HEADER_LENGTH + n) : n \in {8, 40, 47}}

PaletteArgs ==
  { <<>>,
    << <<"regular_mario_palette", 0>> >>,
    << <<"regular_mario_palette", 2>>, <<"fire_mario_palette", 12>> >>,
    << <<"regular_mario_palette", 1>>, <<"regular_mario_palette", 5>> >>,
    << <<"regular_mario_palette", 0>>, <<"fire_mario_palette", 14>> >>,
    << <<"fire_mario_palette", 30>>, <<"regular_mario_palette", 0>> >> }

InitObject ==
  /\ pc = "init"
  /\ err = "none"
  /\ file_data = <<>>
  /\ header = NoHeader
  /\ chr_data = <<>>
  /\ index = 0
  /\ sprites = <<>>
  /\ pal_index = 0
  /\ palettes = EmptyDict
  /\ img = NoImage
  /\ call = NoCall
  /\ ndraws = 0
  /\ ex = NoExport
  /\ saved = NoSaved

Init ==
  /\ \/ /\ rom_file \in FullRoms
        /\ palettes_arg \in { <<>>, << <<"regular_mario_palette", 1000>> >> }
     \/ /\ rom_file \in ShortRoms \cup {FullRom(0, 0)}
        /\ palettes_arg \in PaletteArgs
  /\ load_args = <<>>
  /\ InitObject

Next ==
  \/ ReadFile
  \/ ParseHeader
  \/ SliceChr
  \/ DecodeLoop
  \/ LoadPalettesStep

Spec == Init /\ [][Next]_vars

\* One 16-byte record whose rows differ from each other and from record to
\* record.
TileRecord(k) ==
  [i \in 1 .. SPRITE_RECORD_BYTES |-> (k * 83 + i * i * 29 + 5) % 256]

\* The driver of the drawing runs: a ROM without CHR banks, one palette read
\* from the header bytes, three tiles loaded by hand.
InitDraw ==
  /\ rom_file = HeaderBytes(0, 0)
  /\ palettes_arg = << <<"regular_mario_palette", 0>> >>
  /\ load_args = <<TileRecord(1), TileRecord(2), TileRecord(3)>>
  /\ InitObject

NextDraw ==
  \/ ReadFile
  \/ ParseHeader
  \/ SliceChr
  \/ DecodeLoop
  \/ LoadPalettesStep
  \/ CallLoadSprite
  \/ CallDrawSprite

SpecDraw == InitDraw /\ [][NextDraw]_vars

\* WriteAndNumberAllSprites returns to the driver.
ExportReturn ==
  /\ pc = "exported"
  /\ pc' = "ready"
  /\ UNCHANGED <<rom_file, palettes_arg, load_args, err, file_data, header,
                 chr_data, index, sprites, pal_index, palettes, img, call,
                 ndraws, ex, saved>>

\* The driver of example_reader.py on the reader of the drawing runs: once
\* its tiles are loaded it may export them two to a row, and then it draws
\* sprites (at the origin) and blocks of sprites on its canvas.
NextUse ==
  \/ ReadFile
  \/ ParseHeader
  \/ SliceChr
  \/ DecodeLoop
  \/ LoadPalettesStep
  \/ CallLoadSprite
  \/ (load_args = <<>> /\ ndraws = 0 /\ saved = NoSaved /\ ExportBegin
      /\ ex'.per_row = 2)
  \/ ExportDraw
  \/ ExportLabel
  \/ ExportSave
  \/ ExportReturn
  \/ (load_args = <<>> /\ CallDrawSprite
      /\ call'.x_val = 0 /\ call'.y_val = 0)
  \/ (load_args = <<>> /\ CallDrawSpriteBlock)

SpecUse == InitDraw /\ [][NextUse]_vars

MaxExportTiles == 25

\* The driver of the export runs: tiles loaded by hand, then one export.
InitExport ==
  /\ rom_file = HeaderBytes(0, 0)
  /\ palettes_arg = << <<"regular_mario_palette", 0>> >>
  /\ load_args = [k \in 1 .. MaxExportTiles |-> TileRecord(k)]
  /\ InitObject

NextExport ==
  \/ ReadFile
  \/ ParseHeader
  \/ SliceChr
  \/ DecodeLoop
  \/ LoadPalettesStep
  \/ CallLoadSprite
  \/ ExportBegin
  \/ ExportDraw
  \/ ExportLabel
  \/ ExportSave

SpecExport == InitExport /\ [][NextExport]_vars

\* Header parsing on every pair of bank counts.
InitHeader ==
  /\ rom_file \in {HeaderBytes(prg, chr) : prg \in Byte, chr \in Byte}
  /\ palettes_arg = <<>>
  /\ load_args = <<>>
  /\ InitObject

NextHeader ==
  \/ ReadFile
  \/ ParseHeader

SpecHeader == InitHeader /\ [][NextHeader]_vars

\* A record whose row r pairs the plane A byte a + 37r with the plane B byte
\* 8g + r: over a in 0..255 and g in 0..31 every pair of bytes is a row.
DecodeRecord(a, g) ==
  [i \in 1 .. SPRITE_RECORD_BYTES |->
     IF i <= 8 THEN (a + 37 * (i - 1)) % 256
     ELSE 8 * g + (i - 9)]

ZeroRecord == [i \in 1 .. SPRITE_RECORD_BYTES |-> 0]

PlaneAOnesRecord == [i \in 1 .. SPRITE_RECORD_BYTES |-> IF i <= 8 THEN 255 ELSE 0]

DecodeRecords ==
  {DecodeRecord(a, g) : a \in Byte, g \in 0 .. 31}
  \cup {ZeroRecord, PlaneAOnesRecord, SubSeq(ZeroRecord, 1, 15)}

\* The reader as __init__ returns it for a ROM without CHR banks and without
\* palettes (the state Spec reaches from that ROM), about to be handed one
\* record.
InitDecode ==
  /\ rom_file = HeaderBytes(0, 0)
  /\ palettes_arg = <<>>
  /\ load_args \in {<<rec>> : rec \in DecodeRecords}
  /\ pc = "ready"
  /\ err = "none"
  /\ file_data = rom_file
  /\ header = HeaderOf(rom_file)
  /\ chr_data = ChrDataOf(rom_file, HeaderOf(rom_file))
  /\ index = 0
  /\ sprites = <<>>
  /\ pal_index = 1
  /\ palettes = EmptyDict
  /\ img = NoImage
  /\ call = NoCall
  /\ ndraws = 0
  /\ ex = NoExport
  /\ saved = NoSaved

NextDecode == CallLoadSprite

SpecDecode == InitDecode /\ [][NextDecode]_vars

----------------------------------------------------------------------------
(* Properties.                                                              *)

\* Bit k (0 = least significant) of byte b.
BitOf(b, k) == (b \div (2 ^ k)) % 2

PixelDigit(v) ==
  CASE v = 0 -> "0" [] v = 1 -> "1" [] v = 2 -> "2" [] v = 3 -> "3"

\* The tile of a 16-byte record as the planar format defines it: the pixel at
\* row r, column c is 2 * (bit 7-c of plane A byte r) + (bit 7-c of plane B
\* byte r).
PlanarTile(record) ==
  [r \in 1 .. 8 |->
     [c \in 1 .. 8 |->
        PixelDigit(2 * BitOf(record[r], 8 - c) + BitOf(record[8 + r], 8 - c))]]

UniformTile(digit) == [r \in 1 .. 8 |-> [c \in 1 .. 8 |-> digit]]

\* C1: LoadSprite on a 16-byte record appends one tile of 8 rows of 8
\* pixel-indices, the pixel at row r and column c being 2a + b for a, b the
\* bits 7-c of the record's plane A and plane B bytes r; 16 zero bytes give
\* all '0', and plane A = 0xFF x8 with plane B = 0x00 x8 gives all '2'.
C1_LoadSpriteDecodesPlanes ==
  (call.op = "LoadSprite" /\ Len(call.sprite_data) = 16) =>
     /\ call.err = "none"
     /\ Len(sprites) = call.tiles_before + 1
     /\ LET tile == sprites[Len(sprites)]
        IN /\ Len(tile) = 8
           /\ \A r \in 0 .. 7 :
                /\ Len(tile[r + 1]) = 8
                /\ \A c \in 0 .. 7 :
                     tile[r + 1][c + 1] =
                       PixelDigit(2 * BitOf(call.sprite_data[r + 1], 7 - c)
                                  + BitOf(call.sprite_data[r + 9], 7 - c))
           /\ (call.sprite_data = ZeroRecord => tile = UniformTile("0"))
           /\ (call.sprite_data = PlaneAOnesRecord
                 => tile = UniformTile("2"))

\* A record whose first row holds all four pixel-indices has been decoded.
C1_Witness ==
  /\ call.op = "LoadSprite"
  /\ Len(call.sprite_data) = 16
  /\ Len(sprites) = 1
  /\ {sprites[1][1][c] : c \in 1 .. 8} = {"0", "1", "2", "3"}

\* C2: after a successful construction the tile table holds exactly
\* chr_length / 16 tiles, and tile i is the decode of the 16 bytes of the file
\* at offset chr_start + 16 * i.
C2_TileTableFollowsChrRegion ==
  pc = "ready" =>
     /\ Len(sprites) * 16 = header.chr_length
     /\ \A i \in 0 .. (Len(sprites) - 1) :
          sprites[i + 1] =
            PlanarTile(SubSeq(rom_file, header.chr_start + 16 * i + 1,
                              header.chr_start + 16 * i + 16))

\* A ROM with a PRG bank before its CHR bank has been constructed.
C2_Witness ==
  /\ pc = "ready"
  /\ header.prg_banks = 1
  /\ header.chr_banks = 1
  /\ Len(sprites) = 512
  /\ sprites[1] # sprites[2]

\* C3: for all bank counts in bytes 4 and 5 of the header, prg_length =
\* prg_banks * 16384, chr_length = chr_banks * 8192, prg_start = 16 and
\* chr_start = 16 + prg_length.
C3_HeaderDerivedValues ==
  pc = "header" =>
     /\ header.prg_banks = rom_file[5]
     /\ header.chr_banks = rom_file[6]
     /\ header.prg_length = header.prg_banks * 16384
     /\ header.chr_length = header.chr_banks * 8192
     /\ header.prg_start = 16
     /\ header.chr_start = 16 + header.prg_length

\* The header with the largest bank counts has been parsed.
C3_Witness ==
  /\ pc = "header"
  /\ header.prg_banks = 255
  /\ header.chr_banks = 254
  /\ header.chr_start = 4177936
  /\ header.chr_length = 2080768

\* C4: a descriptor (name, address) whose four bytes in the file are
\* [a, b, c, d] leaves under name the palette '0' -> color(a),
\* '1' -> color(c), '2' -> color(b), '3' -> color(d).  (Of two descriptors
\* with one name the later one is the one stored.)
C4_PaletteKeysSwitched ==
  pc \in {"palettes", "ready"} =>
     \A i \in 1 .. (pal_index - 1) :
        (\A j \in (i + 1) .. (pal_index - 1) :
            palettes_arg[j][1] # palettes_arg[i][1])
        => LET name == palettes_arg[i][1]
               address == palettes_arg[i][2]
               a == rom_file[address + 1]
               b == rom_file[address + 2]
               c == rom_file[address + 3]
               d == rom_file[address + 4]
           IN /\ name \in DOMAIN palettes
              /\ palettes[name]["0"] = NES_PALETTE(a)
              /\ palettes[name]["1"] = NES_PALETTE(c)
              /\ palettes[name]["2"] = NES_PALETTE(b)
              /\ palettes[name]["3"] = NES_PALETTE(d)

\* Two palettes have been loaded, one of them from bytes whose second and
\* third differ.
C4_Witness ==
  /\ pc = "ready"
  /\ Len(palettes_arg) = 2
  /\ DOMAIN palettes = {"regular_mario_palette", "fire_mario_palette"}
  /\ rom_file[palettes_arg[1][2] + 2] # rom_file[palettes_arg[1][2] + 3]

\* The greatest row length of a layout, and its footprint in pixels.
MaxRowLength(layout) ==
  CHOOSE m \in {Len(layout[r]) : r \in 1 .. Len(layout)} :
    \A r \in 1 .. Len(layout) : Len(layout[r]) <= m

FootprintWidth(layout) == 8 * MaxRowLength(layout)

FootprintHeight(layout) == 8 * Len(layout)

\* Pixel (i, j) lies in the 8x8 cell of row r, column c (1-based) of a layout
\* drawn at (x, y).
InCell(i, j, r, c, x, y) ==
  /\ i >= x + 8 * (c - 1) /\ i < x + 8 * c
  /\ j >= y + 8 * (r - 1) /\ j < y + 8 * r

\* Pixel (i, j) lies in a cell the layout lists.
InListedCell(i, j, layout, x, y) ==
  \E r \in 1 .. Len(layout) :
     \E c \in 1 .. Len(layout[r]) : InCell(i, j, r, c, x, y)

InFootprint(i, j, layout, x, y) ==
  /\ i >= x /\ i < x + FootprintWidth(layout)
  /\ j >= y /\ j < y + FootprintHeight(layout)

PaletteUsed(palette) ==
  IF palette = NoPalette THEN DEFAULT_PALETTE ELSE palette

\* The last operation was a DrawSprite call on an existing canvas.
DrewOnCanvas == call.op = "DrawSprite" /\ call.img_in # NoImage

\* C5: a DrawSprite call on an existing canvas never makes it narrower or
\* lower; the canvas it returns has size (max(oldW, 8 * max_row_length + x),
\* max(oldH, 8 * num_rows + y)); and every pixel of the old canvas that the
\* draw does not cover keeps its value at its coordinates.
C5_EnlargementKeepsPixels ==
  DrewOnCanvas =>
     LET old == call.img_in
         layout == call.sprites
     IN /\ img.size[1] >= old.size[1]
        /\ img.size[2] >= old.size[2]
        /\ call.err = "none" =>
             img.size =
               <<Max(old.size[1], FootprintWidth(layout) + call.x_val),
                 Max(old.size[2], FootprintHeight(layout) + call.y_val)>>
        /\ \A j \in 0 .. (old.size[2] - 1) :
             \A i \in 0 .. (old.size[1] - 1) :
                ~InListedCell(i, j, layout, call.x_val, call.y_val)
                => img.px[j][i] = old.px[j][i]

\* A draw has enlarged a canvas in both directions, and the old canvas held a
\* drawn (non-white) pixel outside the new sprite.
C5_Witness ==
  /\ DrewOnCanvas
  /\ call.err = "none"
  /\ img.size[1] > call.img_in.size[1]
  /\ img.size[2] > call.img_in.size[2]
  /\ \E j \in 0 .. (call.img_in.size[2] - 1) :
        \E i \in 0 .. (call.img_in.size[1] - 1) :
           /\ ~InListedCell(i, j, call.sprites, call.x_val, call.y_val)
           /\ call.img_in.px[j][i] # WHITE
           /\ img.px[j][i] = call.img_in.px[j][i]

\* The canvas passed in already holds the footprint at the offset.
CanvasLargeEnough ==
  /\ DrewOnCanvas
  /\ call.img_in.size[1] >= FootprintWidth(call.sprites) + call.x_val
  /\ call.img_in.size[2] >= FootprintHeight(call.sprites) + call.y_val

\* C6: a DrawSprite call on a canvas that already holds the footprint at
\* (x, y) changes no pixel outside [x, x + 8 * max_row_length) x
\* [y, y + 8 * num_rows); inside, it writes only the cells the layout lists,
\* each pixel (px, py) of the cell at (row, col) with palette[tile[py][px]] at
\* (x + col * 8 + px, y + row * 8 + py).
C6_DrawStaysInFootprint ==
  CanvasLargeEnough =>
     LET old == call.img_in
         layout == call.sprites
         x == call.x_val
         y == call.y_val
         palette == PaletteUsed(call.palette)
     IN /\ img.size = old.size
        /\ \A j \in 0 .. (old.size[2] - 1) :
             \A i \in 0 .. (old.size[1] - 1) :
                (~InFootprint(i, j, layout, x, y)
                 \/ ~InListedCell(i, j, layout, x, y))
                => img.px[j][i] = old.px[j][i]
        /\ call.err = "none" =>
             \A r \in 1 .. Len(layout) :
                \A c \in 1 .. Len(layout[r]) :
                   (layout[r][c] >= 0 /\ layout[r][c] < Len(sprites)) =>
                      \A py \in 0 .. 7 :
                         \A px \in 0 .. 7 :
                            img.px[y + (r - 1) * 8 + py][x + (c - 1) * 8 + px]
                              = palette[sprites[layout[r][c] + 1][py + 1][px + 1]]

\* A ragged layout has been drawn at (0, 0) on a larger canvas that held
\* drawn pixels both in the cell the layout leaves out and outside the
\* footprint.
C6_Witness ==
  /\ CanvasLargeEnough
  /\ call.err = "none"
  /\ call.sprites = << <<0, 1>>, <<2>> >>
  /\ call.img_in.size[1] > FootprintWidth(call.sprites) + call.x_val
  /\ \E j \in 0 .. (img.size[2] - 1) :
        \E i \in 0 .. (img.size[1] - 1) :
           /\ InFootprint(i, j, call.sprites, call.x_val, call.y_val)
           /\ ~InListedCell(i, j, call.sprites, call.x_val, call.y_val)
           /\ img.px[j][i] # WHITE
  /\ \E j \in 0 .. (img.size[2] - 1) :
        \E i \in 0 .. (img.size[1] - 1) :
           /\ ~InFootprint(i, j, call.sprites, call.x_val, call.y_val)
           /\ img.px[j][i] # WHITE
  /\ \E j \in 0 .. 7 : \E i \in 0 .. 7 : img.px[j][i] # call.img_in.px[j][i]

\* The last operation was a DrawSprite call with img=None that returned.
DrewOnNone ==
  /\ call.op = "DrawSprite"
  /\ call.img_in = NoImage
  /\ call.err = "none"

\* C7: DrawSprite with no canvas returns a new canvas of width
\* 8 * max_row_length + x and height 8 * num_rows + y, white wherever the
\* layout lists no cell.
C7_NewCanvasHasFootprintSize ==
  DrewOnNone =>
     /\ img.mode = "RGB"
     /\ img.size = <<FootprintWidth(call.sprites) + call.x_val,
                     FootprintHeight(call.sprites) + call.y_val>>
     /\ \A j \in 0 .. (img.size[2] - 1) :
          \A i \in 0 .. (img.size[1] - 1) :
             ~InListedCell(i, j, call.sprites, call.x_val, call.y_val)
             => img.px[j][i] = WHITE

\* A layout whose second row is the longer one has been drawn at (3, 5) on no
\* canvas.
C7_Witness ==
  /\ DrewOnNone
  /\ Len(call.sprites) = 2
  /\ Len(call.sprites[1]) < Len(call.sprites[2])
  /\ call.x_val = 3
  /\ call.y_val = 5
  /\ img.size = <<19, 21>>
  /\ \E j \in 0 .. 20 : \E i \in 0 .. 18 : img.px[j][i] # WHITE

\* C8: a DrawSprite call whose layout names a tile index outside 0..N-1 on a
\* tile table of size N raises the index error.
C8_OutOfRangeIndexRaises ==
  (/\ call.op = "DrawSprite"
   /\ \E r \in 1 .. Len(call.sprites) :
         \E c \in 1 .. Len(call.sprites[r]) :
            call.sprites[r][c] < 0 \/ call.sprites[r][c] >= call.tiles_before)
  => call.err = "IndexError"

\* The successful DrawSprite calls of the export that drew tile i.
ExportCallsOf(i) ==
  {k \in 1 .. Len(ex.calls) :
     ex.calls[k].err = "none" /\ ex.calls[k].sprite_number = i}

C10_TruncatedInputRejected ==
  pc = "ready" =>
     /\ Len(file_data) >= 16
     /\ header.chr_start + header.chr_length <= Len(file_data)

\* The steps of __init__ in the order the code takes them, as pairs of
\* driver positions.
ConstructionEdges ==
  { <<"init", "read">>, <<"read", "header">>, <<"read", "failed">>,
    <<"header", "decode">>, <<"decode", "palettes">>, <<"decode", "ready">>,
    <<"decode", "failed">>, <<"palettes", "palettes">>,
    <<"palettes", "ready">>, <<"palettes", "failed">> }

\* A step from one position of __init__ to the next.
ConstructionStep == <<pc, pc'>> \in ConstructionEdges

\* Every record of the CHR region announced by the header has been decoded.
AllTilesDecoded == Len(sprites) * 16 = header.chr_length

\* What each position of the construction has and has not done yet.
ConstructionProgress ==
  /\ pc = "init" => file_data = <<>>
  /\ pc \in {"init", "read"} => header = NoHeader
  /\ (pc \in {"init", "read", "header"} \/ header = NoHeader)
       => chr_data = <<>> /\ sprites = <<>>
  /\ pc \in {"init", "read", "header", "decode"}
       => palettes = EmptyDict /\ pal_index = 0
  /\ pc # "init" => file_data = rom_file
  /\ (pal_index > 0 \/ DOMAIN palettes # {}) => AllTilesDecoded
  /\ pc = "palettes" => AllTilesDecoded /\ err = "none"
  /\ pc = "ready" =>
       /\ err = "none"
       /\ AllTilesDecoded
       /\ \A i \in 1 .. Len(palettes_arg) :
             palettes_arg[i][1] \in DOMAIN palettes
  /\ pc = "failed" => err # "none"

\* C11: construction loads the bytes, parses the header, slices the CHR
\* region, decodes every tile and resolves every palette, in that order; no
\* palette is resolved before the last tile is decoded; and a failed decode or
\* resolve ends construction, so the only reader a caller obtains is one with
\* every tile decoded and every palette resolved.
C11_ConstructionOrderedAndAtomic ==
  /\ []ConstructionProgress
  /\ [][ConstructionStep]_vars

\* Construction has failed on its second palette, after the first was stored.
C11_Witness ==
  /\ pc = "failed"
  /\ err = "IndexError"
  /\ pal_index = 2
  /\ DOMAIN palettes = {"regular_mario_palette"}
  /\ Len(palettes_arg) = 2

\* The positions of a running WriteAndNumberAllSprites.
ExportPositions == {"export_draw", "export_label", "export_save", "exported"}

\* A step of a DrawSprite or DrawSpriteBlock call of the driver, or of a
\* WriteAndNumberAllSprites call.
DrawingStep ==
  \/ ndraws' # ndraws
  \/ pc \in ExportPositions
  \/ pc' \in ExportPositions

RECURSIVE EntryPositions(_, _)
EntryPositions(sprite_block, r) ==
  IF r > Len(sprite_block) THEN <<>>
  ELSE [k \in 1 .. Len(sprite_block[r]) |-> <<r, k>>]
       \o EntryPositions(sprite_block, r + 1)

\* The pixel width of the first k entries of a row.
RECURSIVE WidthBefore(_, _)
WidthBefore(block_row, k) ==
  IF k = 0 THEN 0
  ELSE WidthBefore(block_row, k - 1) + FootprintWidth(block_row[k][1])

\* The pixel height of the tallest sprite of a row (0 for an empty row).
TallestIn(block_row) ==
  LET heights == {FootprintHeight(block_row[k][1]) : k \in 1 .. Len(block_row)}
                 \cup {0}
  IN CHOOSE h \in heights : \A g \in heights : g <= h

\* The sum of the tallest sprite heights of the first r rows.
RECURSIVE HeightOfRows(_, _)
HeightOfRows(sprite_block, r) ==
  IF r = 0 THEN 0
  ELSE HeightOfRows(sprite_block, r - 1) + TallestIn(sprite_block[r])

\* The pixel width of the widest row.
WidestRow(sprite_block) ==
  LET widths == {WidthBefore(sprite_block[r], Len(sprite_block[r])) :
                   r \in 1 .. Len(sprite_block)} \cup {0}
  IN CHOOSE w \in widths : \A v \in widths : v <= w

\* The last operation was a DrawSpriteBlock call that got past GetBlockSize.
DrewBlock == call.op = "DrawSpriteBlock" /\ call.err # "ValueError"

\* C13: DrawSpriteBlock calls DrawSprite for the entries in row-major order,
\* the k-th entry of row r at x = the sum of 8 * max_row_length of entries
\* 0..k-1 of that row and y = 32 * r whatever the sprite heights; with no
\* canvas it starts from one of size (widest row width, sum over the rows of
\* the tallest sprite height); and the canvas it returns holds (x + width,
\* y + height) of every entry.
C13_BlockOffsets ==
  DrewBlock =>
     LET sprite_block == call.sprite_block
         positions == EntryPositions(sprite_block, 1)
         draws == call.draws
     IN /\ Len(draws) <= Len(positions)
        /\ call.err = "none" => Len(draws) = Len(positions)
        /\ \A i \in 1 .. Len(draws) :
             LET r == positions[i][1]
                 k == positions[i][2]
             IN /\ draws[i].row_idx = r - 1
                /\ draws[i].sprite_idx = k - 1
                /\ draws[i].sprites = sprite_block[r][k][1]
                /\ draws[i].palette = sprite_block[r][k][2]
                /\ draws[i].x_val = WidthBefore(sprite_block[r], k - 1)
                /\ draws[i].y_val = 32 * (r - 1)
                /\ i < Len(draws) => draws[i].err = "none"
                /\ call.err = "none" =>
                     /\ img.size[1] >= draws[i].x_val
                                       + FootprintWidth(draws[i].sprites)
                     /\ img.size[2] >= draws[i].y_val
                                       + FootprintHeight(draws[i].sprites)
        /\ call.img_in = NoImage =>
             /\ call.img_new.mode = "RGB"
             /\ call.img_new.size =
                  <<WidestRow(sprite_block),
                    HeightOfRows(sprite_block, Len(sprite_block))>>
        /\ call.img_in # NoImage => call.img_new = NoImage

\* A block of two rows of sprites 16 pixels tall has been drawn on no canvas:
\* the first canvas was 24 x 32, the second row went to y = 32, its second
\* entry to x = 8, and the canvas returned is 24 x 48.
C13_Witness ==
  /\ DrewBlock
  /\ call.err = "none"
  /\ call.img_in = NoImage
  /\ Len(call.sprite_block) = 2
  /\ Len(call.draws) = 4
  /\ call.img_new.size = <<24, 32>>
  /\ call.draws[2].x_val = 16
  /\ call.draws[2].y_val = 0
  /\ call.draws[4].x_val = 8
  /\ call.draws[4].y_val = 32
  /\ img.size = <<24, 48>>

\* C14: in WriteAndNumberAllSprites on N tiles with per_row = p, every
\* DrawSprite call, the one that ends the last row with an IndexError
\* included, has (x + 8, y + 8) within the first canvas of size (8 * p,
\* (N div p + 1) * 8) and so writes to the object it was given: the canvas
\* keeps its size and the canvas saved is the one the tiles were drawn on.
C14_ExportNeverEnlarges ==
  pc \in ExportPositions =>
     LET n == Len(sprites)
         p == ex.per_row
         first_size == <<8 * p, ((n \div p) + 1) * 8>>
     IN /\ ex.img.size = first_size
        /\ \A k \in 1 .. Len(ex.calls) :
             /\ ex.calls[k].same
             /\ ex.calls[k].x_val >= 0
             /\ ex.calls[k].y_val >= 0
             /\ ex.calls[k].x_val + 8 <= first_size[1]
             /\ ex.calls[k].y_val + 8 <= first_size[2]
        /\ pc = "exported" => saved.img = ex.img

\* 25 tiles have been exported 10 to a row; the call for tile 25 raised
\* IndexError in the last row of the canvas without enlarging it.
C14_Witness ==
  /\ pc = "exported"
  /\ Len(sprites) = 25
  /\ ex.per_row = 10
  /\ saved.img.size = <<80, 24>>
  /\ \E k \in 1 .. Len(ex.calls) :
        /\ ex.calls[k].err = "IndexError"
        /\ ex.calls[k].sprite_number = 25
        /\ ex.calls[k].same
        /\ ex.calls[k].x_val = 40
        /\ ex.calls[k].y_val + 8 = saved.img.size[2]

====
